---- MODULE Spec2Model ----
(***************************************************************************)
(* Model of the Blu-ray ripping pipeline of rippingTUI: the MainUI state   *)
(* machine (src/src/ui/main_ui.cpp), the rip stage worker                  *)
(* (src/src/makemkv_wrapper.cpp) and the encode stage worker               *)
(* (main_ui.cpp start_encoding lambda + src/src/handbrake_wrapper.cpp).    *)
(*                                                                         *)
(* Threads: the UI thread runs the FTXUI loop (key handlers and the        *)
(* renderer); every std::async call starts one worker thread.  A           *)
(* std::future obtained from std::async blocks in its move-assignment      *)
(* until the shared state it releases is ready, so                         *)
(* "future_ = std::async(...)" first starts the new worker and then blocks *)
(* the UI thread on the old one.                                           *)
(***************************************************************************)
EXTENDS Integers, Sequences, FiniteSets, TLC

\* ---- bounds of the model (not program constants) ----
MaxTitles == 2
MaxFiles == 2

\* What DiscDetector::scan_drives can return: no drive or one drive.
DriveLists == {<<>>, <<"/dev/sr0">>}

\* The two std::future objects of a stage that can hold a shared state at the
\* same time: the member (rip_future_, encode_future_) and the temporary that
\* std::async returned and that is about to be move-assigned to the member.
Holders == {"member", "temp"}

AppState == {"SCANNING", "DISC_SELECTION", "TITLE_SELECTION",
             "RIPPING", "ENCODING", "COMPLETED"}

VARIABLES
    current_state_,        \* AppState
    available_discs_,      \* sequence of device paths
    available_titles_,     \* sequence of title indices
    selected_titles_,      \* sequence of BOOLEAN, one per title
    ripped_files_,         \* sequence of discovered file ids
    current_encode_index_, \* index written by start_encoding and its worker
    ripAsync,              \* Holders -> shared state of a rip_titles std::async
    encAsync,              \* Holders -> shared state of a start_encoding std::async
    ui_pc                  \* position of the UI thread

vars == <<current_state_, available_discs_, available_titles_, selected_titles_,
          ripped_files_, current_encode_index_, ripAsync, encAsync, ui_pc>>

uiData == <<available_discs_, available_titles_, selected_titles_>>

\* The progress data of MainUI and of the two wrappers.  The pipeline
\* specification Spec leaves them alone; ProgressSpec, ParserSpec, NotifySpec
\* and HubSpec below are the specifications that move them.
VARIABLES
    current_rip_progress_,    \* RipProgress slot of MainUI
    current_encode_progress_, \* EncodeProgress slot of MainUI
    ripProc,                  \* Holders -> locals of rip_titles/execute_makemkv
    encProc,                  \* Holders -> locals of the encode lambda/execute_handbrake
    progress_mutex_,          \* owner of the std::mutex, or "free"
    hub_slot,                 \* Slots -> the slot seen field by field
    pub,                      \* Slots -> the progress_callback call in flight
    rd,                       \* the renderer's read of a slot
    published,                \* Slots -> number of the last call that took the lock
    completed,                \* Slots -> number of the last call that released it
    posted,                   \* an event handed to the screen waits for its frame
    log_messages_             \* the last line the body of start_ripping logged

pvars == <<current_rip_progress_, current_encode_progress_, ripProc, encProc>>
hvars == <<progress_mutex_, hub_slot, pub, rd, published, completed>>
allvars == <<vars, pvars, hvars, posted, log_messages_>>

\* ---- helpers ----
Ids(k) == [j \in 1..k |-> j]

\* A std::future without shared state (valid() == false).
NoState == [st |-> "none", n |-> 0, i |-> 0, ph |-> "start",
            launched |-> 0, nz |-> 0, sf |-> FALSE, res |-> FALSE]

\* The shared state of a freshly launched worker over n items.
\*   st   "run" while the worker thread runs, "done" when the result is ready
\*   i    loop index = number of items whose process exited with status 0
\*   ph   "start" at the loop head, "proc" while the item's process runs
\*   launched  number of successful popen calls
\*   nz   number of processes that exited non-zero
\*   sf   a popen call failed
\*   res  the bool the worker returned
NewWorker(n) == [st |-> "run", n |-> n, i |-> 0, ph |-> "start",
                 launched |-> 0, nz |-> 0, sf |-> FALSE, res |-> FALSE]

rip_future_ == ripAsync["member"]
encode_future_ == encAsync["member"]

\* future.valid() && future.wait_for(0ms) == ready
Ready(f) == f.st = "done"

\* selected_indices of start_ripping
SelectedIndices ==
    {j \in 1..Len(selected_titles_) : selected_titles_[j]}

\* ---- progress data ----

\* a double, kept as an exact fraction
RECURSIVE GCD(_, _)
GCD(a, b) == IF b = 0 THEN a ELSE GCD(b, a % b)
Frac(n, d) == LET g == GCD(n, d) IN [num |-> n \div g, den |-> d \div g]
Whole(n) == [num |-> n, den |-> 1]

\* static_cast<int>(double): truncation toward zero
ToInt(f) ==
    IF f.num >= 0 THEN f.num \div f.den ELSE -((-f.num) \div f.den)

\* values a double that was never assigned may turn out to hold
Indeterminate == {Whole(0), Whole(4711)}

\* struct RipProgress (current_file is never assigned anywhere and is left
\* out); a std::string is a tuple of its parts, "" is <<>>
RipProgress(ct, tt, pct, msg) ==
    [current_title |-> ct, total_titles |-> tt, percentage |-> pct,
     status_message |-> msg]

\* struct EncodeProgress: input_file, percentage, status_message (fps,
\* avg_fps, eta and output_file are left out)
EncodeProgress(inp, pct, msg) ==
    [input_file |-> inp, percentage |-> pct, status_message |-> msg]

\* one line of MakeMKV output, as far as execute_makemkv tells lines apart:
\*   "PRGV"  contains "PRGV:" and matches PRGV:(\d+),(\d+),(\d+)
\*   "PRGV?" contains "PRGV:" but does not match
\*   "PRGT"  contains "PRGT:" (and no "PRGV:"), text = what follows it
\*   "other" anything else
RipLine(kind, c, m, x, text) ==
    [kind |-> kind, current |-> c, min |-> m, max |-> x, text |-> text]
NoLine == RipLine("none", 0, 0, 0, <<>>)

\* one line of HandBrake output, as far as execute_handbrake tells lines
\* apart: json = contains "Progress" (with quotes), percent = the number
\* after "Percent": if there is one, legacy = the percentage of a line
\* matching the "NN.NN % ... fps ... ETA" pattern if it matches; a value
\* that may be absent is the empty set or a singleton
EncLine(json, percent, legacy) ==
    [json |-> json, percent |-> percent, legacy |-> legacy]
Absent == {}
Value(v) == {v}
ValueOf(o) == CHOOSE v \in o : TRUE
NoEncLine == EncLine(FALSE, Absent, Absent)

\* locals of a rip worker: the copy of the title list, and inside
\* execute_makemkv the local progress, the last line read and the number of
\* lines read from the pipe; ok = check_rip_completion has taken true from
\* the future and logged "Ripping completed successfully!"
NoRipProc == [titles |-> <<>>, progress |-> RipProgress(0, 0, Whole(0), <<>>),
              line |-> NoLine, nlines |-> 0, ok |-> FALSE]

\* locals of an encode worker: the captures i (in encAsync) and total of its
\* progress_callback, and inside execute_handbrake the local progress and
\* the number of lines read; called = the callback has been called for the
\* current file
NoEncProc == [total |-> 0, progress |-> EncodeProgress(0, Whole(0), <<>>),
              nlines |-> 0, called |-> FALSE]

\* the two slots of MainUI, both guarded by progress_mutex_
Slots == {"rip", "enc"}

\* the members of RipProgress and EncodeProgress that the model keeps, in
\* declaration order, the order in which the implicit copy assignment copies
\* them
Fields(s) ==
    IF s = "rip"
    THEN <<"current_title", "total_titles", "percentage", "status_message">>
    ELSE <<"input_file", "percentage", "status_message">>

\* a slot, or a copy of it, in which every member holds the value given to it
\* by the call with number id; 0 is the value start_ripping or start_encoding
\* stored
SnapshotOf(s, id) == [f \in 1..Len(Fields(s)) |-> id]

\* no progress_callback call in flight / the renderer between two reads
NoCall == [pc |-> "idle", id |-> 0, k |-> 0]
\*   copy  progress_copy; floor = completed[slot] when the lock was taken;
\*   last  per slot, the call whose snapshot the previous read returned
NoRead == [pc |-> "idle", slot |-> "rip", k |-> 0,
           copy |-> SnapshotOf("rip", 0), floor |-> 0,
           last |-> [s \in Slots |-> 0]]

ProgressIdle ==
    /\ current_rip_progress_ = RipProgress(0, 0, Whole(0), <<>>)
    /\ current_encode_progress_ = EncodeProgress(0, Whole(0), <<>>)
    /\ ripProc = [h \in Holders |-> NoRipProc]
    /\ encProc = [h \in Holders |-> NoEncProc]

HubIdle ==
    /\ progress_mutex_ = "free"
    /\ hub_slot = [s \in Slots |-> SnapshotOf(s, 0)]
    /\ pub = [s \in Slots |-> NoCall]
    /\ rd = NoRead
    /\ published = [s \in Slots |-> 0]
    /\ completed = [s \in Slots |-> 0]
    /\ posted = FALSE
    /\ log_messages_ = <<>>

Init ==
    /\ ProgressIdle
    /\ HubIdle
    /\ current_state_ = "SCANNING"
    /\ available_discs_ = <<>>
    /\ available_titles_ = <<>>
    /\ selected_titles_ = <<>>
    /\ ripped_files_ = <<>>
    /\ current_encode_index_ = 0
    /\ ripAsync = [h \in Holders |-> NoState]
    /\ encAsync = [h \in Holders |-> NoState]
    /\ ui_pc = "init"

\* ---- UI thread ----

\* scan_for_discs() without its final assignment: the state stays SCANNING
StateAfterScan_Stuck == "SCANNING"

\* state scan_for_discs() leaves behind
StateAfterScan == "DISC_SELECTION"

\* scan_for_discs()
scan_for_discs ==
    /\ \E drives \in DriveLists : available_discs_' = drives
    /\ current_state_' = StateAfterScan
    /\ UNCHANGED <<available_titles_, selected_titles_, ripped_files_,
                   current_encode_index_, ripAsync, encAsync>>

\* run(): initial scan before screen.Loop
InitialScan ==
    /\ ui_pc = "init"
    /\ scan_for_discs
    /\ ui_pc' = "loop"

\* 'r'
KeyRescan ==
    /\ ui_pc = "loop"
    /\ scan_for_discs
    /\ UNCHANGED ui_pc

\* selected_disc_index_ : the menu cursor; the first entry of the drive list
selected_disc_index_ == 0

\* load_disc_titles(): get_disc_titles returns nullopt or a title list
load_disc_titles ==
    IF selected_disc_index_ >= Len(available_discs_)
    THEN UNCHANGED vars
    ELSE /\ \E ok \in BOOLEAN, k \in 0..MaxTitles :
              IF ok
              THEN /\ available_titles_' = Ids(k)
                   /\ selected_titles_' = [j \in 1..k |-> FALSE]
                   /\ current_state_' = "TITLE_SELECTION"
              ELSE /\ k = 0
                   /\ available_titles_' = <<>>
                   /\ selected_titles_' = <<>>
                   /\ UNCHANGED current_state_
         /\ UNCHANGED <<available_discs_, ripped_files_, current_encode_index_,
                        ripAsync, encAsync, ui_pc>>

\* Enter
KeyReturn ==
    /\ ui_pc = "loop"
    /\ current_state_ = "DISC_SELECTION"
    /\ available_discs_ # <<>>
    /\ load_disc_titles

\* ' ' : toggle the title under the menu cursor
KeySpace ==
    /\ ui_pc = "loop"
    /\ current_state_ = "TITLE_SELECTION"
    /\ \E selected_title_index \in 1..Len(available_titles_) :
         selected_titles_' = [selected_titles_ EXCEPT
                                ![selected_title_index] = ~@]
    /\ UNCHANGED <<current_state_, available_discs_, available_titles_,
                   ripped_files_, current_encode_index_, ripAsync, encAsync,
                   ui_pc>>

\* start_ripping with the state assignment moved in front of the directory
\* and disc checks
start_ripping_StateFirst ==
    \E dirOk \in BOOLEAN :
      IF SelectedIndices = {}
      THEN UNCHANGED vars
      ELSE IF ~dirOk \/ selected_disc_index_ >= Len(available_discs_)
      THEN /\ current_state_' = "RIPPING"
           /\ UNCHANGED <<uiData, ripped_files_, current_encode_index_,
                          ripAsync, encAsync, ui_pc>>
      ELSE /\ current_state_' = "RIPPING"
           /\ ripAsync' = [ripAsync EXCEPT
                             !["temp"] = NewWorker(Cardinality(SelectedIndices))]
           /\ ui_pc' = "assign_rip"
           /\ UNCHANGED <<uiData, ripped_files_, current_encode_index_,
                          encAsync>>

\* start_ripping(): returns early when nothing is selected, when the output
\* directory cannot be created or when the disc index is out of range;
\* otherwise sets RIPPING and calls rip_titles, whose std::async starts the
\* worker before the returned future is move-assigned to rip_future_.
start_ripping ==
    \E dirOk \in BOOLEAN :
      IF \/ SelectedIndices = {}
         \/ ~dirOk
         \/ selected_disc_index_ >= Len(available_discs_)
      THEN UNCHANGED vars
      ELSE /\ current_state_' = "RIPPING"
           /\ ripAsync' = [ripAsync EXCEPT
                 !["temp"] = NewWorker(Cardinality(SelectedIndices))]
           /\ ui_pc' = "assign_rip"
           /\ UNCHANGED <<uiData, ripped_files_, current_encode_index_,
                          encAsync>>

\* 's'
KeyStartRip ==
    /\ ui_pc = "loop"
    /\ current_state_ = "TITLE_SELECTION"
    /\ start_ripping

\* rip_future_ = <temporary>: releasing the old shared state blocks until its
\* worker has finished
RipAssign ==
    /\ ui_pc = "assign_rip"
    /\ rip_future_.st # "run"
    /\ ripAsync' = [ripAsync EXCEPT !["member"] = ripAsync["temp"],
                                    !["temp"] = NoState]
    /\ ui_pc' = "loop"
    /\ UNCHANGED <<current_state_, uiData, ripped_files_,
                   current_encode_index_, encAsync>>

\* start_encoding() on the file list `files`
start_encoding(files, dirOk) ==
    IF files = <<>>
    THEN UNCHANGED <<current_state_, current_encode_index_, encAsync, ui_pc>>
    ELSE /\ current_state_' = "ENCODING"
         /\ current_encode_index_' = 0
         /\ IF ~dirOk
            THEN UNCHANGED <<encAsync, ui_pc>>
            ELSE /\ encAsync' = [encAsync EXCEPT
                       !["temp"] = NewWorker(Len(files))]
                 /\ ui_pc' = "assign_enc"

\* 'e': no check of current_state_; scans the output directory only when
\* ripped_files_ is empty
KeyEncode ==
    /\ ui_pc = "loop"
    /\ \E found \in 0..MaxFiles, dirOk \in BOOLEAN :
         LET files == IF ripped_files_ = <<>> THEN Ids(found)
                      ELSE ripped_files_
         IN /\ ripped_files_ # <<>> => found = 0
            /\ ripped_files_' = files
            /\ start_encoding(files, dirOk)
    /\ UNCHANGED <<uiData, ripAsync>>

\* encode_future_ = std::async(...): blocks on the old encode worker
EncAssign ==
    /\ ui_pc = "assign_enc"
    /\ encode_future_.st # "run"
    /\ encAsync' = [encAsync EXCEPT !["member"] = encAsync["temp"],
                                    !["temp"] = NoState]
    /\ ui_pc' = "loop"
    /\ UNCHANGED <<current_state_, uiData, ripped_files_,
                   current_encode_index_, ripAsync>>

\* state written by the failure branch of check_rip_completion
StateAfterRipFailure == "COMPLETED"

\* success branch that treats an empty discovery like a failed rip
StateAfterRipSuccess_FailOnEmpty(cur, files) ==
    IF files = <<>> THEN "COMPLETED" ELSE cur

\* success branch that moves on to ENCODING by itself when files were found
StateAfterRipSuccess_AutoEncode(cur, files) ==
    IF files # <<>> THEN "ENCODING" ELSE cur

\* state after the success branch of check_rip_completion, which assigns
\* nothing ("Stay in RIPPING state")
StateAfterRipSuccess(cur, files) == cur

\* check_rip_completion(): polls rip_future_ and consumes the result
check_rip_completion ==
    IF Ready(rip_future_)
    THEN /\ ripAsync' = [ripAsync EXCEPT !["member"] = NoState]
         /\ IF rip_future_.res
            THEN \E found \in 0..MaxFiles :
                   /\ ripped_files_' = Ids(found)
                   /\ current_state_' =
                        StateAfterRipSuccess(current_state_, Ids(found))
            ELSE /\ current_state_' = StateAfterRipFailure
                 /\ UNCHANGED ripped_files_
         /\ UNCHANGED <<uiData, current_encode_index_, encAsync, ui_pc>>
    ELSE UNCHANGED vars

\* progress_view renderer: runs whenever the screen is redrawn
Render ==
    /\ ui_pc = "loop"
    /\ IF current_state_ = "RIPPING"
       THEN check_rip_completion
       ELSE UNCHANGED vars

\* ---- rip worker: lambda of MakeMKVWrapper::rip_titles ----

\* execute_makemkv up to popen: a failed popen returns false, which breaks
\* the loop of rip_titles
RipAfterSpawn(w, spawned) ==
    IF spawned
    THEN [w EXCEPT !.ph = "proc", !.launched = @ + 1]
    ELSE [w EXCEPT !.sf = TRUE, !.st = "done", !.res = FALSE]

\* rip_titles loop without the break: a non-zero status is recorded but the
\* next title is ripped all the same
RipAfterExit_NoBreak(w, zero) ==
    LET nz == IF zero THEN w.nz ELSE w.nz + 1 IN
    IF w.i + 1 < w.n
    THEN [w EXCEPT !.i = @ + 1, !.ph = "start", !.nz = nz]
    ELSE [w EXCEPT !.i = @ + 1, !.ph = "start", !.nz = nz, !.st = "done",
                   !.res = (nz = 0)]

\* execute_makemkv from pclose on: status == 0 goes on with the next title,
\* anything else breaks the loop
RipAfterExit(w, zero) ==
    IF zero
    THEN IF w.i + 1 < w.n
         THEN [w EXCEPT !.i = @ + 1, !.ph = "start"]
         ELSE [w EXCEPT !.i = @ + 1, !.ph = "start", !.st = "done",
                        !.res = TRUE]
    ELSE [w EXCEPT !.nz = @ + 1, !.st = "done", !.res = FALSE]

RipItemBegin(h) ==
    /\ ripAsync[h].st = "run"
    /\ ripAsync[h].ph = "start"
    /\ \E spawned \in BOOLEAN :
         ripAsync' = [ripAsync EXCEPT ![h] = RipAfterSpawn(@, spawned)]
    /\ UNCHANGED <<current_state_, uiData, ripped_files_,
                   current_encode_index_, encAsync, ui_pc>>

RipItemExit(h) ==
    /\ ripAsync[h].st = "run"
    /\ ripAsync[h].ph = "proc"
    /\ \E zero \in BOOLEAN :
         ripAsync' = [ripAsync EXCEPT ![h] = RipAfterExit(@, zero)]
    /\ UNCHANGED <<current_state_, uiData, ripped_files_,
                   current_encode_index_, encAsync, ui_pc>>

\* ---- encode worker: lambda of MainUI::start_encoding ----

\* execute_handbrake up to popen: a failed popen returns false
EncAfterSpawn(w, spawned) ==
    IF spawned
    THEN [w EXCEPT !.ph = "proc", !.launched = @ + 1]
    ELSE [w EXCEPT !.sf = TRUE, !.st = "done", !.res = FALSE]

\* encode_future.get(): false breaks the loop (all_success = false, no
\* assignment to current_state_), true goes on to ++i
EncAfterExit(w, zero) ==
    IF zero
    THEN [w EXCEPT !.i = @ + 1, !.ph = "start"]
    ELSE [w EXCEPT !.nz = @ + 1, !.st = "done", !.res = FALSE]

\* state written by the worker when all_success
StateAfterEncodeSuccess == "COMPLETED"

\* loop head "i < ripped_files_.size()" (reads the member, not a copy), then
\* either the next file or the code after the loop
EncLoop(h) ==
    /\ encAsync[h].st = "run"
    /\ encAsync[h].ph = "start"
    /\ IF encAsync[h].i < Len(ripped_files_)
       THEN /\ current_encode_index_' = encAsync[h].i
            /\ \E spawned \in BOOLEAN :
                 encAsync' = [encAsync EXCEPT ![h] = EncAfterSpawn(@, spawned)]
            /\ UNCHANGED current_state_
       ELSE /\ encAsync' = [encAsync EXCEPT ![h].st = "done", ![h].res = TRUE]
            /\ current_state_' = StateAfterEncodeSuccess
            /\ UNCHANGED current_encode_index_
    /\ UNCHANGED <<uiData, ripped_files_, ripAsync, ui_pc>>

EncItemExit(h) ==
    /\ encAsync[h].st = "run"
    /\ encAsync[h].ph = "proc"
    /\ \E zero \in BOOLEAN :
         encAsync' = [encAsync EXCEPT ![h] = EncAfterExit(@, zero)]
    /\ UNCHANGED <<current_state_, uiData, ripped_files_,
                   current_encode_index_, ripAsync, ui_pc>>

Next ==
    \/ InitialScan /\ UNCHANGED <<pvars, hvars, posted, log_messages_>>
    \/ KeyRescan /\ UNCHANGED <<pvars, hvars, posted, log_messages_>>
    \/ KeyReturn /\ UNCHANGED <<pvars, hvars, posted, log_messages_>>
    \/ KeySpace /\ UNCHANGED <<pvars, hvars, posted, log_messages_>>
    \/ KeyStartRip /\ UNCHANGED <<pvars, hvars, posted, log_messages_>>
    \/ RipAssign /\ UNCHANGED <<pvars, hvars, posted, log_messages_>>
    \/ KeyEncode /\ UNCHANGED <<pvars, hvars, posted, log_messages_>>
    \/ EncAssign /\ UNCHANGED <<pvars, hvars, posted, log_messages_>>
    \/ Render /\ UNCHANGED <<pvars, hvars, posted, log_messages_>>
    \/ \E h \in Holders : RipItemBegin(h) /\ UNCHANGED <<pvars, hvars, posted, log_messages_>>
    \/ \E h \in Holders : RipItemExit(h) /\ UNCHANGED <<pvars, hvars, posted, log_messages_>>
    \/ \E h \in Holders : EncLoop(h) /\ UNCHANGED <<pvars, hvars, posted, log_messages_>>
    \/ \E h \in Holders : EncItemExit(h) /\ UNCHANGED <<pvars, hvars, posted, log_messages_>>

Spec == Init /\ [][Next]_allvars

TypeOK ==
    /\ current_state_ \in AppState
    /\ ui_pc \in {"init", "loop", "assign_rip", "assign_enc"}
    /\ current_encode_index_ \in 0..MaxFiles
    /\ \A h \in Holders : ripAsync[h].st \in {"none", "run", "done"}
    /\ \A h \in Holders : encAsync[h].st \in {"none", "run", "done"}

\* ---- claims ----

Workers == {ripAsync[h] : h \in Holders} \cup {encAsync[h] : h \in Holders}

RipRunning == {h \in Holders : ripAsync[h].st = "run"}
EncRunning == {h \in Holders : encAsync[h].st = "run"}

\* C1: a rip-stage worker and an encode-stage worker are never active at the
\* same time.
C1_NoRipEncodeOverlap == ~(RipRunning # {} /\ EncRunning # {})

\* C2: no stage runs re-entrantly: at most one rip worker and at most one
\* encode worker exist at any time.
C2_NoReentrantStage ==
    /\ Cardinality(RipRunning) <= 1
    /\ Cardinality(EncRunning) <= 1

\* C3: in either stage, once the process of item k has exited non-zero the
\* worker has stopped with result false and exactly k processes were launched
\* (none for the items k+1..N).
C3_AbortOnNonZeroExit ==
    \A w \in Workers :
        w.nz > 0 => /\ w.st = "done"
                    /\ w.res = FALSE
                    /\ w.nz = 1
                    /\ w.launched = w.i + 1

\* C3 witness: a rip stage and an encode stage both stopped at a non-zero exit
\* of an item that is not the last of its list.
C3_Witness ==
    /\ \E h \in Holders : /\ ripAsync[h].nz = 1
                          /\ ripAsync[h].st = "done"
                          /\ ripAsync[h].launched < ripAsync[h].n
    /\ \E h \in Holders : /\ encAsync[h].nz = 1
                          /\ encAsync[h].st = "done"
                          /\ encAsync[h].launched < encAsync[h].n

\* C4: a stage returns true only if every item of the list it was started on
\* had its process launched and exit zero, and a failed launch makes the stage
\* stop with result false.
C4_TrueOnlyIfAllItemsZero ==
    \A w \in Workers :
        /\ (w.st = "done" /\ w.res) =>
              (w.launched = w.n /\ w.i = w.n /\ w.nz = 0 /\ ~w.sf)
        /\ w.sf => (w.st = "done" /\ ~w.res)

\* The step in which check_rip_completion consumes a rip result `ok`
\* (rip_future_.get() leaves the member without shared state).
RipResultConsumed(ok) ==
    /\ ui_pc = "loop"
    /\ current_state_ = "RIPPING"
    /\ Ready(rip_future_)
    /\ rip_future_.res = ok
    /\ ripAsync'["member"].st = "none"

\* The step in which a worker of the encode stage finishes with result `ok`.
EncodeFinished(ok) ==
    \E h \in Holders : /\ encAsync[h].st = "run"
                       /\ encAsync'[h].st = "done"
                       /\ encAsync'[h].res = ok

\* A std::async call of this step starts a worker thread.
StageLaunched ==
    \/ ripAsync["temp"].st = "none" /\ ripAsync'["temp"].st = "run"
    \/ encAsync["temp"].st = "none" /\ encAsync'["temp"].st = "run"

\* C5: when the rip stage returns failure while the state is Ripping, the
\* state becomes a failure state distinct from the success state Completed.
C5_RipFailureNotCompleted ==
    [][RipResultConsumed(FALSE) =>
          current_state_' \notin {"COMPLETED", "RIPPING"}]_vars

\* C6: when the encode stage returns failure while the state is Encoding, the
\* state becomes Failed; it does not remain Encoding.
C6_EncodeFailureLeavesEncoding ==
    [][(current_state_ = "ENCODING" /\ EncodeFinished(FALSE)) =>
          current_state_' \notin {"ENCODING", "COMPLETED"}]_vars

\* C7 as claimed: when the rip stage succeeds but discovery finds no file, the
\* state becomes Failed (it leaves Ripping for a state that is not Completed)
\* and no encode stage is started.
C7_EmptyDiscoveryFails ==
    [][(RipResultConsumed(TRUE) /\ ripped_files_' = <<>>) =>
          /\ current_state_' \notin {"RIPPING", "ENCODING", "COMPLETED"}
          /\ ~StageLaunched]_vars

\* C7 as amended: when the rip stage succeeds but discovery finds no file,
\* check_rip_completion leaves the state at Ripping, keeps the UI thread in
\* its loop and starts no stage.
C7_EmptyDiscoveryStaysRipping ==
    [][(RipResultConsumed(TRUE) /\ ripped_files_' = <<>>) =>
          /\ current_state_' = "RIPPING"
          /\ ui_pc' = "loop"
          /\ encAsync' = encAsync
          /\ ~StageLaunched]_vars

\* C7 witness: the rip result was consumed as a success (the member future is
\* empty, the state is still Ripping) and discovery left the file list empty.
C7_Witness ==
    /\ current_state_ = "RIPPING"
    /\ ui_pc = "loop"
    /\ rip_future_.st = "none"
    /\ ripped_files_ = <<>>

\* C8 as claimed: Completed is terminal: no step changes a Completed state or
\* launches another stage.
C8_CompletedTerminal ==
    [][current_state_ = "COMPLETED" =>
          (current_state_' = "COMPLETED" /\ ~StageLaunched)]_vars

\* C8 as amended: a Completed state is left only by a key handler of the UI
\* thread: rescan, which moves to DISC_SELECTION and launches nothing, or
\* start-encode with a non-empty file list, which moves to ENCODING; and a
\* stage is launched from Completed only by that start-encode step.
C8_CompletedLeftOnlyByKeys ==
    [][current_state_ = "COMPLETED" =>
          /\ current_state_' # "COMPLETED" =>
                /\ ui_pc = "loop"
                /\ \/ /\ current_state_' = "DISC_SELECTION"
                      /\ ~StageLaunched
                      /\ ui_pc' = "loop"
                   \/ /\ current_state_' = "ENCODING"
                      /\ ripped_files_' # <<>>
          /\ StageLaunched =>
                /\ current_state_' = "ENCODING"
                /\ encAsync'["temp"].st = "run"]_vars

\* C8 witness: an encode stage has returned success (its worker set Completed)
\* and a further encode stage has been launched by a start-encode request.
C8_Witness ==
    /\ encode_future_.st = "done"
    /\ encode_future_.res
    /\ encAsync["temp"].st = "run"
    /\ current_state_ = "ENCODING"

\* C9: Completed is entered only from Encoding, in the step in which an encode
\* stage returns success; never from Ripping.
C9_CompletedOnlyByEncodeSuccess ==
    [][(current_state_ # "COMPLETED" /\ current_state_' = "COMPLETED") =>
          (current_state_ = "ENCODING" /\ EncodeFinished(TRUE))]_vars

\* C10 as claimed: when the rip stage has succeeded and discovery found at
\* least one file, the orchestrator itself moves to Encoding and launches the
\* encode stage.
C10_AutoEncodeAfterRip ==
    [][(RipResultConsumed(TRUE) /\ ripped_files_' # <<>>) =>
          /\ current_state_' = "ENCODING"
          /\ encAsync'["temp"].st = "run"]_vars

\* C10 as amended: when the rip stage has succeeded and discovery found at
\* least one file, check_rip_completion leaves the state at Ripping and
\* launches nothing; Encoding is entered only by the start-encode key
\* handler.
C10_EncodeOnlyOnRequest ==
    [][/\ (RipResultConsumed(TRUE) /\ ripped_files_' # <<>>) =>
             /\ current_state_' = "RIPPING"
             /\ ~StageLaunched
       /\ (current_state_ # "ENCODING" /\ current_state_' = "ENCODING") =>
             KeyEncode]_vars

\* C10 witness: the rip result was consumed as a success, discovery found
\* files, and the pipeline rests in Ripping with no encode stage launched.
C10_Witness ==
    /\ current_state_ = "RIPPING"
    /\ ui_pc = "loop"
    /\ rip_future_.st = "none"
    /\ ripped_files_ # <<>>
    /\ \A h \in Holders : encAsync[h].st = "none"

\* ---- the pipeline with its progress data (ProgressSpec) ----

\* bounds: lines read from one process, largest number in a PRGV line
MaxLines == 2
MaxCurrent == 2

RipLines ==
    {RipLine("PRGV", c, 0, x, <<>>) : c \in 0..MaxCurrent, x \in {0, MaxCurrent}}
    \cup {RipLine("PRGV?", 0, 0, 0, <<>>),
          RipLine("PRGT", 0, 0, 0, <<"0,0,Saving to MKV file">>),
          RipLine("other", 0, 0, 0, <<>>)}

PctValues == {Frac(c * 100, MaxCurrent) : c \in 0..MaxCurrent}

EncLines ==
    {EncLine(TRUE, Value(p), Absent) : p \in PctValues}
    \cup {EncLine(FALSE, Absent, Value(p)) : p \in PctValues}
    \cup {EncLine(TRUE, Absent, Absent), NoEncLine}

\* the elements of a set of numbers in increasing order
RECURSIVE SeqOf(_)
SeqOf(S) ==
    IF S = {} THEN <<>>
    ELSE LET m == CHOOSE x \in S : \A y \in S : x <= y
         IN <<m>> \o SeqOf(S \ {m})

\* the "Initialize progress tracking" block of start_ripping
RipSlotAtStart(n) == RipProgress(0, n, Whole(0), <<"Starting...">>)

\* the "Reset encode progress" block of start_encoding
EncSlotAtStart(slot) ==
    [slot EXCEPT !.percentage = Whole(0), !.status_message = <<"Starting...">>]

\* 's' with the progress data: slot initialised, title list copied into the
\* worker
KeyStartRipP ==
    /\ KeyStartRip
    /\ IF ui_pc' = "assign_rip"
       THEN /\ current_rip_progress_' =
                 RipSlotAtStart(Cardinality(SelectedIndices))
            /\ ripProc' = [ripProc EXCEPT !["temp"] =
                 [NoRipProc EXCEPT !.titles = SeqOf(SelectedIndices)]]
       ELSE UNCHANGED <<current_rip_progress_, ripProc>>
    /\ UNCHANGED <<current_encode_progress_, encProc, hvars>>

RipAssignP ==
    /\ RipAssign
    /\ ripProc' = [ripProc EXCEPT !["member"] = ripProc["temp"],
                                  !["temp"] = NoRipProc]
    /\ UNCHANGED <<current_rip_progress_, current_encode_progress_, encProc,
                   hvars>>

\* 'e' with the progress data.  ProgressSpec takes up the runs in which 'e'
\* is pressed while no worker is running; Spec has the others.
KeyEncodeP ==
    /\ \A h \in Holders : ripAsync[h].st # "run" /\ encAsync[h].st # "run"
    /\ KeyEncode
    /\ IF ui_pc' = "assign_enc"
       THEN /\ current_encode_progress_' =
                 EncSlotAtStart(current_encode_progress_)
            /\ encProc' = [encProc EXCEPT !["temp"] = NoEncProc]
       ELSE UNCHANGED <<current_encode_progress_, encProc>>
    /\ UNCHANGED <<current_rip_progress_, ripProc, hvars>>

EncAssignP ==
    /\ EncAssign
    /\ encProc' = [encProc EXCEPT !["member"] = encProc["temp"],
                                  !["temp"] = NoEncProc]
    /\ UNCHANGED <<current_rip_progress_, current_encode_progress_, ripProc,
                   hvars>>

\* failure branch of check_rip_completion that clears the slot
RipSlotAfterFailure_Cleared(slot) == RipProgress(0, 0, Whole(0), <<>>)

\* what the failure branch of check_rip_completion does to the slot: nothing
RipSlotAfterFailure(slot) == slot

\* the renderer with the progress data
RenderP ==
    /\ Render
    /\ current_rip_progress_' =
         IF current_state_ = "RIPPING" /\ Ready(rip_future_)
            /\ ~rip_future_.res
         THEN RipSlotAfterFailure(current_rip_progress_)
         ELSE current_rip_progress_
    /\ ripProc' = IF current_state_ = "RIPPING" /\ Ready(rip_future_)
                  THEN [ripProc EXCEPT !["member"] =
                          [NoRipProc EXCEPT !.ok = rip_future_.res]]
                  ELSE ripProc
    /\ UNCHANGED <<current_encode_progress_, encProc, hvars>>

\* rip_titles loop body up to popen: the first snapshot of the title is
\* published whether or not popen succeeds; execute_makemkv then declares
\* its own progress with current_title = total_titles = 1 and no value for
\* percentage
RipItemBeginP(h) ==
    /\ RipItemBegin(h)
    /\ current_rip_progress_' =
         RipProgress(ripAsync[h].i + 1, Len(ripProc[h].titles), Whole(0),
                     <<"Ripping title ", ripProc[h].titles[ripAsync[h].i + 1]>>)
    /\ IF ripAsync'[h].ph = "proc"
       THEN \E pct \in Indeterminate :
              ripProc' = [ripProc EXCEPT ![h].progress =
                                            RipProgress(1, 1, pct, <<>>),
                                         ![h].line = NoLine,
                                         ![h].nlines = 0]
       ELSE UNCHANGED ripProc
    /\ UNCHANGED <<current_encode_progress_, encProc, hvars>>

\* PRGV branch that counts min as part of the progress made
ParseRipLine_MinAdded(progress, l) ==
    IF l.kind = "PRGV"
    THEN IF l.max > 0
         THEN LET pct == Frac((l.current + l.min) * 100, l.max)
              IN [progress |-> [progress EXCEPT
                      !.percentage = pct,
                      !.status_message = <<"Progress: ", ToInt(pct), "%">>],
                  publish |-> TRUE]
         ELSE [progress |-> progress, publish |-> FALSE]
    ELSE IF l.kind = "PRGT"
    THEN [progress |-> [progress EXCEPT !.status_message = l.text],
          publish |-> TRUE]
    ELSE [progress |-> progress, publish |-> FALSE]

\* PRGV branch that publishes also when max is 0
ParseRipLine_NoMaxGuard(progress, l) ==
    IF l.kind = "PRGV"
    THEN LET pct == IF l.max > 0 THEN Frac(l.current * 100, l.max)
                    ELSE Whole(0)
         IN [progress |-> [progress EXCEPT
                 !.percentage = pct,
                 !.status_message = <<"Progress: ", ToInt(pct), "%">>],
             publish |-> TRUE]
    ELSE IF l.kind = "PRGT"
    THEN [progress |-> [progress EXCEPT !.status_message = l.text],
          publish |-> TRUE]
    ELSE [progress |-> progress, publish |-> FALSE]

\* body of the read loop of execute_makemkv for one line: the new value of
\* the local progress and whether callback(progress) is called
ParseRipLine(progress, l) ==
    IF l.kind = "PRGV"
    THEN IF l.max > 0
         THEN LET pct == Frac(l.current * 100, l.max)
              IN [progress |-> [progress EXCEPT
                      !.percentage = pct,
                      !.status_message = <<"Progress: ", ToInt(pct), "%">>],
                  publish |-> TRUE]
         ELSE [progress |-> progress, publish |-> FALSE]
    ELSE IF l.kind = "PRGT"
    THEN [progress |-> [progress EXCEPT !.status_message = l.text],
          publish |-> TRUE]
    ELSE [progress |-> progress, publish |-> FALSE]

\* one iteration of the read loop of execute_makemkv
RipLineP(h) ==
    /\ ripAsync[h].st = "run"
    /\ ripAsync[h].ph = "proc"
    /\ ripProc[h].nlines < MaxLines
    /\ \E l \in RipLines :
         LET r == ParseRipLine(ripProc[h].progress, l)
         IN /\ ripProc' = [ripProc EXCEPT ![h].progress = r.progress,
                                          ![h].line = l,
                                          ![h].nlines = @ + 1]
            /\ current_rip_progress_' =
                 IF r.publish THEN r.progress ELSE current_rip_progress_
    /\ UNCHANGED <<vars, current_encode_progress_, encProc, hvars>>

\* pclose: the locals of execute_makemkv go out of scope
RipItemExitP(h) ==
    /\ RipItemExit(h)
    /\ ripProc' = [ripProc EXCEPT ![h].progress = NoRipProc.progress,
                                  ![h].line = NoLine,
                                  ![h].nlines = 0]
    /\ UNCHANGED <<current_rip_progress_, current_encode_progress_, encProc,
                   hvars>>

\* progress_callback that stores the snapshot as handed in, without the
\* file position in the status message
EncCallback_NoFileTag(i, total, progress) == progress

\* the progress_callback of start_encoding for file i+1 of total: the slot
\* becomes the snapshot with its status message replaced
EncCallback(i, total, progress) ==
    [progress EXCEPT !.status_message =
        <<"File ", i + 1, "/", total, " - ", ToInt(progress.percentage), "%">>]

\* parse_json_progress: a fresh EncodeProgress whose percentage is assigned
\* only if the line has a "Percent" number
ParsedJson(l, garbage) ==
    LET pct == IF l.percent = Absent THEN garbage ELSE ValueOf(l.percent)
    IN EncodeProgress(0, pct, <<"Encoding: ", ToInt(pct), "%">>)

\* read loop body whose legacy branch leaves the status message as it was
ParseEncLine_KeepStatus(progress, l, garbage) ==
    LET p1 == IF l.json
              THEN [ParsedJson(l, garbage) EXCEPT
                       !.input_file = progress.input_file]
              ELSE progress
        c1 == IF l.json THEN <<p1>> ELSE <<>>
        p2 == IF l.legacy # Absent
              THEN [p1 EXCEPT !.percentage = ValueOf(l.legacy)]
              ELSE p1
        c2 == IF l.legacy # Absent THEN <<p2>> ELSE <<>>
    IN [progress |-> p2, calls |-> c1 \o c2]

\* body of the read loop of execute_handbrake for one line: the sequence of
\* snapshots handed to callback (none, one or two) and the new local progress
ParseEncLine(progress, l, garbage) ==
    LET p1 == IF l.json
              THEN [ParsedJson(l, garbage) EXCEPT
                       !.input_file = progress.input_file]
              ELSE progress
        c1 == IF l.json THEN <<p1>> ELSE <<>>
        p2 == IF l.legacy # Absent
              THEN [p1 EXCEPT
                       !.percentage = ValueOf(l.legacy),
                       !.status_message =
                           <<"Encoding: ", ToInt(ValueOf(l.legacy)), "%">>]
              ELSE p1
        c2 == IF l.legacy # Absent THEN <<p2>> ELSE <<>>
    IN [progress |-> p2, calls |-> c1 \o c2]

\* loop head of the encode lambda with the progress data: for the next file
\* the callback captures total, and execute_handbrake declares its progress
EncLoopP(h) ==
    /\ EncLoop(h)
    /\ encProc' = [encProc EXCEPT ![h] =
         IF encAsync'[h].ph = "proc"
         THEN [total |-> Len(ripped_files_),
               progress |-> EncodeProgress(ripped_files_[encAsync[h].i + 1],
                                           Whole(0), <<>>),
               nlines |-> 0, called |-> FALSE]
         ELSE NoEncProc]
    /\ UNCHANGED <<current_rip_progress_, current_encode_progress_, ripProc,
                   hvars>>

\* one iteration of the read loop of execute_handbrake
EncLineP(h) ==
    /\ encAsync[h].st = "run"
    /\ encAsync[h].ph = "proc"
    /\ encProc[h].nlines < MaxLines
    /\ \E l \in EncLines, garbage \in Indeterminate :
         LET r == ParseEncLine(encProc[h].progress, l, garbage)
             called == r.calls # <<>>
         IN /\ (l.json /\ l.percent = Absent) \/ garbage = Whole(0)
            /\ encProc' = [encProc EXCEPT ![h].progress = r.progress,
                                          ![h].nlines = @ + 1,
                                          ![h].called = @ \/ called]
            /\ current_encode_progress_' =
                 IF called
                 THEN EncCallback(encAsync[h].i, encProc[h].total,
                                  r.calls[Len(r.calls)])
                 ELSE current_encode_progress_
    /\ UNCHANGED <<vars, current_rip_progress_, ripProc, hvars>>

\* encode_future.get() returned: execute_handbrake has closed the pipe; the
\* last value of its progress is kept for the claims about the end of a run
EncItemExitP(h) ==
    /\ EncItemExit(h)
    /\ encProc' = [encProc EXCEPT ![h].nlines = 0]
    /\ UNCHANGED <<current_rip_progress_, current_encode_progress_, ripProc,
                   hvars>>

\* MainUI after a scan, a title load and the selection of every title: a
\* state Spec reaches, from which ProgressSpec follows rips and encodes with
\* their progress data
PInit ==
    /\ HubIdle
    /\ current_state_ = "TITLE_SELECTION"
    /\ available_discs_ = <<"/dev/sr0">>
    /\ \E k \in 1..MaxTitles :
         /\ available_titles_ = Ids(k)
         /\ selected_titles_ = [j \in 1..k |-> TRUE]
    /\ ripped_files_ = <<>>
    /\ current_encode_index_ = 0
    /\ ripAsync = [h \in Holders |-> NoState]
    /\ encAsync = [h \in Holders |-> NoState]
    /\ ui_pc = "loop"
    /\ current_rip_progress_ = RipProgress(0, 0, Whole(0), <<>>)
    /\ current_encode_progress_ \in
         {EncodeProgress(0, g, <<>>) : g \in Indeterminate}
    /\ ripProc = [h \in Holders |-> NoRipProc]
    /\ encProc = [h \in Holders |-> NoEncProc]

PNext ==
    \/ KeyStartRipP /\ UNCHANGED <<posted, log_messages_>>
    \/ RipAssignP /\ UNCHANGED <<posted, log_messages_>>
    \/ KeyEncodeP /\ UNCHANGED <<posted, log_messages_>>
    \/ EncAssignP /\ UNCHANGED <<posted, log_messages_>>
    \/ RenderP /\ UNCHANGED <<posted, log_messages_>>
    \/ \E h \in Holders : RipItemBeginP(h) /\ UNCHANGED <<posted, log_messages_>>
    \/ \E h \in Holders : RipLineP(h) /\ UNCHANGED <<posted, log_messages_>>
    \/ \E h \in Holders : RipItemExitP(h) /\ UNCHANGED <<posted, log_messages_>>
    \/ \E h \in Holders : EncLoopP(h) /\ UNCHANGED <<posted, log_messages_>>
    \/ \E h \in Holders : EncLineP(h) /\ UNCHANGED <<posted, log_messages_>>
    \/ \E h \in Holders : EncItemExitP(h) /\ UNCHANGED <<posted, log_messages_>>

ProgressSpec == PInit /\ [][PNext]_allvars

\* ---- the two tool wrappers line by line (ParserSpec) ----

\* struct EncodeProgress with all its members; a text that is built or taken
\* apart character by character (eta) is a tuple of one-character strings
EncodeSnapshot(inp, out, pct, fps, avg, eta, msg) ==
    [input_file |-> inp, output_file |-> out, percentage |-> pct,
     fps |-> fps, avg_fps |-> avg, eta |-> eta, status_message |-> msg]

\* the decimal numeral "<int>.<frac>" with one digit after the point, as the
\* groups (\d+\.?\d*) and (\d+\.\d+) capture it
Dec(i, f) == [int |-> i, frac |-> f]

\* std::stod of such a numeral
stod(t) == Frac(t.int * 10 + t.frac, 10)

\* the number a tuple of decimal digits denotes
RECURSIVE DigitsValue(_)
DigitsValue(ds) ==
    IF ds = <<>> THEN 0
    ELSE DigitsValue(SubSeq(ds, 1, Len(ds) - 1)) * 10 + ds[Len(ds)]

\* std::stoi of the digits (\d+) captured, for numerals that fit an int
stoi(ds) == DigitsValue(ds)

DigitChar(d) == <<"0", "1", "2", "3", "4", "5", "6", "7", "8", "9">>[d + 1]

\* operator<< of an int >= 0: its decimal digits
RECURSIVE Digits(_)
Digits(n) ==
    IF n < 10 THEN <<DigitChar(n)>>
    ELSE Digits(n \div 10) \o <<DigitChar(n % 10)>>

\* setw(2) with the default fill character
Pad2_SpaceFill(n) == IF n < 10 THEN <<" ">> \o Digits(n) ELSE Digits(n)

\* setfill('0') << setw(2) << n: at least two characters, filled with '0'
Pad2(n) == IF n < 10 THEN <<"0">> \o Digits(n) ELSE Digits(n)

\* the "Extract ETA" block of parse_json_progress for int seconds
FormatEta(seconds) ==
    LET hours == seconds \div 3600
        minutes == (seconds % 3600) \div 60
        secs == seconds % 60
    IN Pad2(hours) \o <<":">> \o Pad2(minutes) \o <<":">> \o Pad2(secs)

\* one line of HandBrake output with everything execute_handbrake and
\* parse_json_progress look at: json = contains "Progress" (with quotes);
\* percent, rate, rateAvg = the numeral after "Percent":, "Rate":,
\* "RateAvg":; etaSeconds = the digits after "ETASeconds":; legacy = the four
\* groups of the "NN.NN % ... fps ... avg ... fps ... ETA ..h..m..s" pattern.
\* Each of them may be absent.
HandbrakeLine(json, percent, rate, rateAvg, etaSeconds, legacy) ==
    [json |-> json, percent |-> percent, rate |-> rate, rateAvg |-> rateAvg,
     etaSeconds |-> etaSeconds, legacy |-> legacy]
NoHandbrakeLine == HandbrakeLine(FALSE, Absent, Absent, Absent, Absent, Absent)

\* what the three doubles of a default-initialised EncodeProgress may hold
Garbage == [percentage : Indeterminate, fps : Indeterminate,
            avg_fps : Indeterminate]

\* parse_json_progress: a fresh EncodeProgress in which only the members
\* whose key is found in the line are assigned
parse_json_progress(l, g) ==
    LET pct == IF l.percent = Absent THEN g.percentage
               ELSE stod(ValueOf(l.percent))
        fps == IF l.rate = Absent THEN g.fps ELSE stod(ValueOf(l.rate))
        avg == IF l.rateAvg = Absent THEN g.avg_fps
               ELSE stod(ValueOf(l.rateAvg))
        eta == IF l.etaSeconds = Absent THEN <<>>
               ELSE FormatEta(stoi(ValueOf(l.etaSeconds)))
    IN EncodeSnapshot(0, 0, pct, fps, avg, eta,
                      <<"Encoding: ", ToInt(pct), "%">>)

\* body of the read loop of execute_handbrake for one line, all members:
\* the new local progress and the snapshots handed to callback, in order
ReadHandbrakeLine(progress, l, g) ==
    LET p1 == IF l.json
              THEN [parse_json_progress(l, g) EXCEPT
                       !.input_file = progress.input_file,
                       !.output_file = progress.output_file]
              ELSE progress
        c1 == IF l.json THEN <<p1>> ELSE <<>>
        leg == ValueOf(l.legacy)
        p2 == IF l.legacy # Absent
              THEN [p1 EXCEPT
                       !.percentage = stod(leg.percent),
                       !.fps = stod(leg.fps),
                       !.avg_fps = stod(leg.avg),
                       !.eta = leg.eta,
                       !.status_message =
                           <<"Encoding: ", ToInt(stod(leg.percent)), "%">>]
              ELSE p1
        c2 == IF l.legacy # Absent THEN <<p2>> ELSE <<>>
    IN [progress |-> p2, calls |-> c1 \o c2]

\* the lines MakeMKV may print: PRGV lines with current up to above max and
\* with two values of min, and the three other kinds
MakemkvLines ==
    {RipLine("PRGV", c, m, x, <<>>) :
        c \in 0..(MaxCurrent + 1), m \in 0..1, x \in 0..MaxCurrent}
    \cup {RipLine("PRGV?", 0, 0, 0, <<>>),
          RipLine("PRGT", 0, 0, 0, <<"0,0,Saving to MKV file">>),
          RipLine("other", 0, 0, 0, <<>>)}

PercentTexts == {Dec(45, 5), Dec(100, 0)}
RateTexts == {Dec(23, 9)}
RateAvgTexts == {Dec(24, 1)}
EtaTexts == {<<0>>, <<5, 9>>, <<9, 3, 2>>, <<8, 6, 3, 9, 9>>,
             <<3, 6, 0, 0, 0, 0>>}
LegacyTexts == {[percent |-> Dec(50, 0), fps |-> Dec(30, 0),
                 avg |-> Dec(29, 5), eta |-> <<"00h15m32s">>]}

Optional(S) == {Absent} \cup {Value(v) : v \in S}

\* the lines HandBrake may print: with "Progress" and any subset of the four
\* keys; with "Progress", with or without "Percent", and text matching the
\* legacy pattern; and without "Progress", where the keys are not looked at
HandbrakeLines ==
    {HandbrakeLine(TRUE, p, r, a, e, Absent) :
        p \in Optional(PercentTexts), r \in Optional(RateTexts),
        a \in Optional(RateAvgTexts), e \in Optional(EtaTexts)}
    \cup {HandbrakeLine(TRUE, p, Absent, Absent, Absent, Value(leg)) :
            p \in Optional(PercentTexts), leg \in LegacyTexts}
    \cup {HandbrakeLine(FALSE, Absent, Absent, Absent, Absent, leg) :
            leg \in Optional(LegacyTexts)}

\* one iteration of the read loop of execute_makemkv; every callback call
\* takes the lock once and stores the snapshot
MakemkvRead(h) ==
    /\ ripAsync[h].st = "run"
    /\ ripAsync[h].ph = "proc"
    /\ ripProc[h].nlines < MaxLines
    /\ \E l \in MakemkvLines :
         LET r == ParseRipLine(ripProc[h].progress, l)
         IN /\ ripProc' = [ripProc EXCEPT ![h].progress = r.progress,
                                          ![h].line = l,
                                          ![h].nlines = @ + 1]
            /\ current_rip_progress_' =
                 IF r.publish THEN r.progress ELSE current_rip_progress_
            /\ published' = [published EXCEPT !["rip"] =
                               IF r.publish THEN @ + 1 ELSE @]
    /\ UNCHANGED <<vars, current_encode_progress_, encProc, progress_mutex_,
                   hub_slot, pub, rd, completed>>

\* one iteration of the read loop of execute_handbrake
HandbrakeRead(h) ==
    /\ encAsync[h].st = "run"
    /\ encAsync[h].ph = "proc"
    /\ encProc[h].nlines < MaxLines
    /\ \E l \in HandbrakeLines, g \in Garbage :
         LET r == ReadHandbrakeLine(encProc[h].progress, l, g)
             n == Len(r.calls)
         IN /\ (l.json /\ l.percent = Absent) \/ g.percentage = Whole(0)
            /\ (l.json /\ l.rate = Absent) \/ g.fps = Whole(0)
            /\ (l.json /\ l.rateAvg = Absent) \/ g.avg_fps = Whole(0)
            /\ encProc' = [encProc EXCEPT ![h].progress = r.progress,
                                          ![h].line = l,
                                          ![h].nlines = @ + 1,
                                          ![h].called = @ \/ n > 0]
            /\ current_encode_progress_' =
                 IF n > 0
                 THEN EncCallback(encAsync[h].i, encProc[h].total, r.calls[n])
                 ELSE current_encode_progress_
            /\ published' = [published EXCEPT !["enc"] = @ + n]
    /\ UNCHANGED <<vars, current_rip_progress_, ripProc, progress_mutex_,
                   hub_slot, pub, rd, completed>>

\* a rip worker inside execute_makemkv for the only title, or an encode
\* worker inside execute_handbrake for the only file, before the first line:
\* states Spec reaches after 's' and after 'e'
ParserInit ==
    /\ HubIdle
    /\ available_discs_ = <<"/dev/sr0">>
    /\ available_titles_ = Ids(1)
    /\ selected_titles_ = <<TRUE>>
    /\ current_encode_index_ = 0
    /\ ui_pc = "loop"
    /\ \E tool \in Slots :
         /\ current_state_ = IF tool = "rip" THEN "RIPPING" ELSE "ENCODING"
         /\ ripped_files_ = IF tool = "rip" THEN <<>> ELSE Ids(1)
         /\ ripAsync = [h \in Holders |->
              IF h = "member" /\ tool = "rip"
              THEN [NewWorker(1) EXCEPT !.ph = "proc", !.launched = 1]
              ELSE NoState]
         /\ encAsync = [h \in Holders |->
              IF h = "member" /\ tool = "enc"
              THEN [NewWorker(1) EXCEPT !.ph = "proc", !.launched = 1]
              ELSE NoState]
         /\ current_rip_progress_ =
              IF tool = "rip"
              THEN RipProgress(1, 1, Whole(0), <<"Ripping title ", 1>>)
              ELSE RipProgress(0, 0, Whole(0), <<>>)
         /\ \E pct \in Indeterminate :
              ripProc = [h \in Holders |->
                IF h = "member" /\ tool = "rip"
                THEN [NoRipProc EXCEPT !.titles = <<1>>,
                                       !.progress = RipProgress(1, 1, pct, <<>>)]
                ELSE NoRipProc]
              /\ (tool = "rip" \/ pct = Whole(0))
         /\ \E g \in Garbage :
              /\ g.percentage = Whole(0)
              /\ (tool = "enc" \/ (g.fps = Whole(0) /\ g.avg_fps = Whole(0)))
              /\ current_encode_progress_ =
                   EncodeSnapshot(0, 0, Whole(0), Whole(0), Whole(0),
                                  <<"0", "0", ":", "0", "0", ":", "0", "0">>,
                                  <<"Starting...">>)
              /\ encProc = [h \in Holders |->
                   IF h = "member" /\ tool = "enc"
                   THEN [total |-> 1,
                         progress |-> EncodeSnapshot(1, 1, Whole(0), g.fps,
                                                     g.avg_fps, <<>>, <<>>),
                         line |-> NoHandbrakeLine,
                         nlines |-> 0, called |-> FALSE]
                   ELSE NoEncProc]

ParserNext ==
    \/ \E h \in Holders : MakemkvRead(h) /\ UNCHANGED <<posted, log_messages_>>
    \/ \E h \in Holders : RipItemExitP(h) /\ UNCHANGED <<posted, log_messages_>>
    \/ \E h \in Holders : HandbrakeRead(h) /\ UNCHANGED <<posted, log_messages_>>
    \/ \E h \in Holders : EncItemExitP(h) /\ UNCHANGED <<posted, log_messages_>>

ParserSpec == ParserInit /\ [][ParserNext]_allvars

\* ---- the rip stage with the screen's events (NotifySpec) ----

\* ScreenInteractive::Loop draws a frame, which runs the renderer, after it
\* has handled events, and waits when there is none.  Events are keys and
\* what screen_->Post(Event::Custom) hands in from a worker.

\* ' ': the key is an event, a frame follows
KeySpaceN ==
    /\ KeySpace
    /\ posted' = TRUE
    /\ UNCHANGED <<pvars, hvars, log_messages_>>

\* the last add_log call of start_ripping, given what the call did: the
\* checks are made in the order selection, output directory, disc index
StartRipLog ==
    IF SelectedIndices = {}
    THEN {<<"No titles selected">>}
    ELSE IF ui_pc' = "assign_rip"
    THEN {<<"Ripping ", Cardinality(SelectedIndices), " title(s) to ",
            "output_directory_">>}
    ELSE {<<"Error creating output directory: ", "e.what()">>}
         \cup (IF selected_disc_index_ >= Len(available_discs_)
               THEN {<<"Invalid disc selection">>} ELSE {})

\* 's': the key is an event, a frame follows
KeyStartRipN ==
    /\ KeyStartRipP
    /\ posted' = TRUE
    /\ log_messages_' \in StartRipLog

RipAssignN == RipAssignP /\ UNCHANGED <<posted, log_messages_>>

\* any other event of the terminal (a key without effect, a resize)
OtherEvent ==
    /\ ui_pc = "loop"
    /\ ~posted
    /\ posted' = TRUE
    /\ UNCHANGED <<vars, pvars, hvars, log_messages_>>

\* the frame drawn for the events handled
Frame == posted /\ RenderP /\ posted' = FALSE /\ UNCHANGED log_messages_

\* the callback call of rip_titles ends with screen_->Post(Event::Custom)
RipItemBeginN(h) ==
    RipItemBeginP(h) /\ posted' = TRUE /\ UNCHANGED log_messages_

\* so does every callback call of execute_makemkv; a line without a callback
\* call posts nothing
RipLineN(h) ==
    /\ RipLineP(h)
    /\ posted' = (posted \/ ParseRipLine(ripProc[h].progress,
                                         ripProc'[h].line).publish)
    /\ UNCHANGED log_messages_

\* pclose, the return of execute_makemkv and the return of the lambda post
\* nothing
RipItemExitN(h) == RipItemExitP(h) /\ UNCHANGED <<posted, log_messages_>>

\* MainUI after a scan and a title load, no title selected yet: a state Spec
\* reaches
NInit ==
    /\ HubIdle
    /\ current_rip_progress_ = RipProgress(0, 0, Whole(0), <<>>)
    /\ current_encode_progress_ \in
         {EncodeProgress(0, g, <<>>) : g \in Indeterminate}
    /\ ripProc = [h \in Holders |-> NoRipProc]
    /\ encProc = [h \in Holders |-> NoEncProc]
    /\ current_state_ = "TITLE_SELECTION"
    /\ available_discs_ = <<"/dev/sr0">>
    /\ \E k \in 1..MaxTitles :
         /\ available_titles_ = Ids(k)
         /\ selected_titles_ = [j \in 1..k |-> FALSE]
    /\ ripped_files_ = <<>>
    /\ current_encode_index_ = 0
    /\ ripAsync = [h \in Holders |-> NoState]
    /\ encAsync = [h \in Holders |-> NoState]
    /\ ui_pc = "loop"

NNext ==
    \/ KeySpaceN
    \/ KeyStartRipN
    \/ RipAssignN
    \/ OtherEvent
    \/ Frame
    \/ \E h \in Holders : RipItemBeginN(h)
    \/ \E h \in Holders : RipLineN(h)
    \/ \E h \in Holders : RipItemExitN(h)

\* the UI thread and the worker thread keep running and the tool comes to an
\* end; the user is free never to touch a key again
NotifySpec ==
    /\ NInit
    /\ [][NNext]_allvars
    /\ WF_allvars(RipAssignN)
    /\ WF_allvars(Frame)
    /\ \A h \in Holders :
         /\ WF_allvars(RipItemBeginN(h))
         /\ WF_allvars(RipLineN(h))
         /\ WF_allvars(RipItemExitN(h))

\* ---- the lock around the progress slots (HubSpec) ----

\* bound: progress_callback calls in one run
MaxPublishes == 3

\* calls made so far for slot s; the next call is number Issued(s) + 1
Issued(s) == published[s] + (IF pub[s].pc = "lock" THEN 1 ELSE 0)

\* a lock_guard that does not wait for the mutex
CanLock_NoMutex(t) == TRUE

\* std::lock_guard<std::mutex> lock(progress_mutex_) returns once the mutex
\* is free
CanLock(t) == progress_mutex_ = "free"

\* the members (as indices into Fields) a progress_callback writes, in
\* order: the rip callback assigns the whole struct, the encode callback
\* assigns the whole struct and then status_message once more
Writes(s) == IF s = "rip" THEN <<1, 2, 3, 4>> ELSE <<1, 2, 3, 3>>

\* a renderer that keeps showing what its copy held before
CopiedField_Stale(slot, copy, k) == copy[k]

\* progress_copy = current_..._progress_, one member
CopiedField(slot, copy, k) == slot[k]

\* the number of the call whose snapshot a copy is, -1 if its members stem
\* from different calls
Pos(copy) ==
    IF \A f, g \in DOMAIN copy : copy[f] = copy[g] THEN copy[1] ELSE -1

\* a worker's tool printed a progress line: the wrapper calls the callback
CallbackCall(s) ==
    /\ pub[s].pc = "idle"
    /\ Issued("rip") + Issued("enc") < MaxPublishes
    /\ pub' = [pub EXCEPT ![s] = [pc |-> "lock", id |-> Issued(s) + 1, k |-> 0]]
    /\ UNCHANGED <<vars, pvars, progress_mutex_, hub_slot, rd, published,
                   completed>>

CallbackLock(s) ==
    /\ pub[s].pc = "lock"
    /\ CanLock(s)
    /\ progress_mutex_' = s
    /\ published' = [published EXCEPT ![s] = pub[s].id]
    /\ pub' = [pub EXCEPT ![s].pc = "write", ![s].k = 1]
    /\ UNCHANGED <<vars, pvars, hub_slot, rd, completed>>

CallbackWrite(s) ==
    /\ pub[s].pc = "write"
    /\ hub_slot' = [hub_slot EXCEPT ![s][Writes(s)[pub[s].k]] = pub[s].id]
    /\ pub' = IF pub[s].k < Len(Writes(s))
              THEN [pub EXCEPT ![s].k = @ + 1]
              ELSE [pub EXCEPT ![s].pc = "unlock"]
    /\ UNCHANGED <<vars, pvars, progress_mutex_, rd, published, completed>>

\* end of the lock_guard scope of the callback
CallbackUnlock(s) ==
    /\ pub[s].pc = "unlock"
    /\ progress_mutex_' = "free"
    /\ completed' = [completed EXCEPT ![s] =
                        IF pub[s].id > @ THEN pub[s].id ELSE @]
    /\ pub' = [pub EXCEPT ![s] = NoCall]
    /\ UNCHANGED <<vars, pvars, hub_slot, rd, published>>

\* progress_view: the slot read depends on current_state_
SlotShown == IF current_state_ = "RIPPING" THEN "rip" ELSE "enc"

ReadLock ==
    /\ rd.pc = "idle"
    /\ current_state_ \in {"RIPPING", "ENCODING"}
    /\ CanLock("ui")
    /\ progress_mutex_' = "ui"
    /\ rd' = [rd EXCEPT !.pc = "copy", !.slot = SlotShown, !.k = 1,
                        !.copy = SnapshotOf(SlotShown, 0),
                        !.floor = completed[SlotShown]]
    /\ UNCHANGED <<vars, pvars, hub_slot, pub, published, completed>>

ReadCopy ==
    /\ rd.pc = "copy"
    /\ rd' = [rd EXCEPT
                !.copy[rd.k] = CopiedField(hub_slot[rd.slot], rd.copy, rd.k),
                !.k = IF rd.k < Len(Fields(rd.slot)) THEN @ + 1 ELSE @,
                !.pc = IF rd.k < Len(Fields(rd.slot)) THEN @ ELSE "unlock"]
    /\ UNCHANGED <<vars, pvars, progress_mutex_, hub_slot, pub, published,
                   completed>>

\* end of the lock_guard scope of the renderer; progress_copy is then drawn
ReadUnlock ==
    /\ rd.pc = "unlock"
    /\ progress_mutex_' = "free"
    /\ rd' = [rd EXCEPT !.pc = "idle", !.last[rd.slot] = Pos(rd.copy)]
    /\ UNCHANGED <<vars, pvars, hub_slot, pub, published, completed>>

\* the UI loop running while a rip worker and an encode worker are both in
\* their tool's read loop (a state Spec reaches), in either of the two states
\* in which the renderer reads a slot
HInit ==
    /\ HubIdle
    /\ ProgressIdle
    /\ current_state_ \in {"RIPPING", "ENCODING"}
    /\ available_discs_ = <<"/dev/sr0">>
    /\ available_titles_ = Ids(1)
    /\ selected_titles_ = <<TRUE>>
    /\ ripped_files_ = Ids(1)
    /\ current_encode_index_ = 0
    /\ ripAsync = [h \in Holders |->
         IF h = "member"
         THEN [NewWorker(1) EXCEPT !.ph = "proc", !.launched = 1]
         ELSE NoState]
    /\ encAsync = [h \in Holders |->
         IF h = "member"
         THEN [NewWorker(1) EXCEPT !.ph = "proc", !.launched = 1]
         ELSE NoState]
    /\ ui_pc = "loop"

HNext ==
    \/ \E s \in Slots : CallbackCall(s) /\ UNCHANGED <<posted, log_messages_>>
    \/ \E s \in Slots : CallbackLock(s) /\ UNCHANGED <<posted, log_messages_>>
    \/ \E s \in Slots : CallbackWrite(s) /\ UNCHANGED <<posted, log_messages_>>
    \/ \E s \in Slots : CallbackUnlock(s) /\ UNCHANGED <<posted, log_messages_>>
    \/ ReadLock /\ UNCHANGED <<posted, log_messages_>>
    \/ ReadCopy /\ UNCHANGED <<posted, log_messages_>>
    \/ ReadUnlock /\ UNCHANGED <<posted, log_messages_>>

HubSpec == HInit /\ [][HNext]_allvars

\* a step taken by a background worker (the lambda of rip_titles or of
\* start_encoding), as opposed to a step of the FTXUI loop
RipWorkerStep ==
    \E h \in Holders : ripAsync[h].st = "run" /\ ripAsync'[h] # ripAsync[h]
                        /\ ui_pc' = ui_pc

EncWorkerStep ==
    \E h \in Holders : encAsync[h].st = "run" /\ encAsync'[h] # encAsync[h]
                        /\ ui_pc' = ui_pc

\* external processes of one stage that have been started and not yet closed
RipProcesses == {h \in Holders : ripAsync[h].st = "run" /\ ripAsync[h].ph = "proc"}
EncProcesses == {h \in Holders : encAsync[h].st = "run" /\ encAsync[h].ph = "proc"}

\* C12: the UI thread never waits for a stage worker: it is never inside the
\* assignment to rip_future_ or encode_future_ while the worker held by that
\* future is still running.
C12_CallerNeverBlocked ==
    /\ ~(ui_pc = "assign_rip" /\ rip_future_.st = "run")
    /\ ~(ui_pc = "assign_enc" /\ encode_future_.st = "run")

\* C13: no step of a background worker changes the pipeline state or the
\* current encode item index, the members the UI thread reads and writes
\* without holding a lock.
C13_WorkerWritesOnlySlot ==
    [][(RipWorkerStep \/ EncWorkerStep) =>
         /\ current_state_' = current_state_
         /\ current_encode_index_' = current_encode_index_]_vars

\* C16: while an encode worker is running, the list it iterates
\* (ripped_files_) is not changed.
C16_ListFrozenWhileEncoding ==
    [][EncRunning # {} => ripped_files_' = ripped_files_]_vars

\* C19: within a stage one item is processed at a time and in list order:
\* at most one external process of a stage exists, and a worker in its
\* (i+1)-th process has launched exactly i+1 processes, the earlier ones
\* all closed.
C19_OneItemAtATime ==
    /\ Cardinality(RipProcesses) <= 1
    /\ Cardinality(EncProcesses) <= 1
    /\ \A w \in Workers :
         w.st = "run" => w.launched = (IF w.ph = "proc" THEN w.i + 1 ELSE w.i)

\* ---- claims checked under ProgressSpec ----

\* the encode worker held by h returns true in this step
EncodeSucceeds(h) ==
    encAsync[h].st = "run" /\ encAsync'[h].st = "done" /\ encAsync'[h].res

\* what the slot shows for file k of total at pct percent
FileStatus(k, total, pct) == <<"File ", k, "/", total, " - ", ToInt(pct), "%">>

C17_FailureKeepsSlot ==
    [][(RipResultConsumed(FALSE) \/ EncodeFinished(FALSE)) =>
         /\ current_rip_progress_' = current_rip_progress_
         /\ current_encode_progress_' = current_encode_progress_]_allvars

\* a failed rip has been consumed (COMPLETED without any encode worker) and
\* the rip slot still shows the last "Progress: p%" snapshot
C17_Witness ==
    /\ current_state_ = "COMPLETED"
    /\ \A h \in Holders : ripAsync[h].st = "none" /\ encAsync[h].st = "none"
    /\ current_rip_progress_.status_message # <<>>
    /\ current_rip_progress_.status_message[1] = "Progress: "
    /\ current_rip_progress_.percentage.num > 0

\* C18: while the process of the k-th of N titles runs, the rip slot carries
\* current_title = k and total_titles = N.
C18_SnapshotCarriesTitlePosition ==
    \A h \in Holders :
        (ripAsync[h].st = "run" /\ ripAsync[h].ph = "proc") =>
            /\ current_rip_progress_.current_title = ripAsync[h].i + 1
            /\ current_rip_progress_.total_titles = ripAsync[h].n

\* C20: reading a line PRGV:<c>,<m>,0 changes neither the rip slot nor the
\* local progress of execute_makemkv.
C20_ZeroMaxIsNoOp ==
    [][\A h \in Holders :
         (/\ vars' = vars
          /\ ripProc'[h].nlines = ripProc[h].nlines + 1
          /\ ripProc'[h].line.kind = "PRGV"
          /\ ripProc'[h].line.max = 0)
         => /\ current_rip_progress_' = current_rip_progress_
            /\ ripProc'[h].progress = ripProc[h].progress]_allvars

\* a PRGV line with max 0 was read after a line that published a percentage,
\* and the slot still shows that percentage
C20_Witness ==
    \E h \in Holders :
        /\ ripProc[h].nlines >= 2
        /\ ripProc[h].line.kind = "PRGV" /\ ripProc[h].line.max = 0
        /\ ripProc[h].line.current > 0
        /\ current_rip_progress_.status_message # <<>>
        /\ current_rip_progress_.status_message[1] = "Progress: "
        /\ current_rip_progress_.percentage.num > 0

\* the step in which the execute_makemkv call of worker h reads one line
RipLineRead(h) ==
    /\ vars' = vars
    /\ ripProc'[h].nlines = ripProc[h].nlines + 1

\* C22: the snapshot published for a PRGT line has the percentage, the
\* current_title and the total_titles the rip slot held before the line,
\* also when the line is the first one of its title.
C22_TitleLineKeepsNumbers ==
    [][\A h \in Holders :
         (RipLineRead(h) /\ ripProc'[h].line.kind = "PRGT")
         => /\ current_rip_progress_'.percentage =
                 current_rip_progress_.percentage
            /\ current_rip_progress_'.current_title =
                 current_rip_progress_.current_title
            /\ current_rip_progress_'.total_titles =
                 current_rip_progress_.total_titles]_allvars

\* encode workers inside execute_handbrake whose callback has run for the
\* current file
EncPublished ==
    {h \in Holders : /\ encAsync[h].st = "run" /\ encAsync[h].ph = "proc"
                     /\ encProc[h].called}

C28_PercentageIsItemLocal ==
    [][\A h \in Holders :
         /\ (/\ ripAsync[h].st = "run" /\ ripAsync[h].ph = "start"
             /\ ripAsync'[h] # ripAsync[h] /\ ui_pc' = ui_pc)
            => /\ current_rip_progress_'.percentage = Whole(0)
               /\ current_rip_progress_'.current_title = ripAsync[h].i + 1
               /\ current_rip_progress_'.total_titles = ripAsync[h].n
         /\ (/\ RipLineRead(h) /\ ripProc[h].nlines = 0
             /\ ripProc'[h].line.kind # "PRGV")
            => current_rip_progress_'.percentage = Whole(0)]_allvars

\* ---- claims checked under ParserSpec ----

\* C21: reading a line PRGV:<c>,<m>,<x> with x > 0 makes exactly one callback
\* call, and the percentage p stored by it is c*100/x (p * x = c * 100),
\* whatever m is.
C21_ValueLinePublishesRatio ==
    [][\A h \in Holders :
         (/\ RipLineRead(h)
          /\ ripProc'[h].line.kind = "PRGV"
          /\ ripProc'[h].line.max > 0)
         => /\ published'["rip"] = published["rip"] + 1
            /\ current_rip_progress_'.percentage.num * ripProc'[h].line.max =
                 ripProc'[h].line.current * 100
                   * current_rip_progress_'.percentage.den]_allvars

\* PRGV:1,1,2 has been read and the slot shows 50%
C21_Witness ==
    \E h \in Holders :
        /\ ripProc[h].line = RipLine("PRGV", 1, 1, 2, <<>>)
        /\ published["rip"] >= 1
        /\ current_rip_progress_.percentage = Whole(50)
        /\ current_rip_progress_.status_message = <<"Progress: ", 50, "%">>

\* the step in which the execute_handbrake call of worker h reads one line
HandbrakeLineRead(h) ==
    /\ vars' = vars
    /\ encProc'[h].nlines = encProc[h].nlines + 1

\* C23: a line with "Progress" (and no legacy text) read after an earlier
\* progress update of the file publishes a snapshot in which every member
\* whose key is absent from the line keeps the value of the earlier update.
C23_AbsentFieldsKeepPrevious ==
    [][\A h \in Holders :
         (/\ HandbrakeLineRead(h)
          /\ encProc[h].called
          /\ encProc'[h].line.json
          /\ encProc'[h].line.legacy = Absent)
         => LET l == encProc'[h].line
                before == current_encode_progress_
                after == current_encode_progress_'
            IN /\ l.percent = Absent => after.percentage = before.percentage
               /\ l.rate = Absent => after.fps = before.fps
               /\ l.rateAvg = Absent => after.avg_fps = before.avg_fps
               /\ l.etaSeconds = Absent => after.eta = before.eta]_allvars

\* the digit a character stands for
CharValue(c) == CHOOSE d \in 0..9 : DigitChar(d) = c

\* the number a tuple of digit characters denotes
RECURSIVE TextValue(_)
TextValue(cs) ==
    IF cs = <<>> THEN 0
    ELSE TextValue(SubSeq(cs, 1, Len(cs) - 1)) * 10 + CharValue(cs[Len(cs)])

\* text is HH:MM:SS for s seconds: two digits each for MM and SS, at least
\* two for HH, and the three numbers are s div 3600, (s mod 3600) div 60 and
\* s mod 60
IsClockOf(text, s) ==
    LET n == Len(text) IN
    /\ n >= 8
    /\ text[n - 2] = ":" /\ text[n - 5] = ":"
    /\ \A k \in (1..n) \ {n - 2, n - 5} : \E d \in 0..9 : text[k] = DigitChar(d)
    /\ TextValue(SubSeq(text, n - 1, n)) = s % 60
    /\ TextValue(SubSeq(text, n - 4, n - 3)) = (s % 3600) \div 60
    /\ TextValue(SubSeq(text, 1, n - 6)) = s \div 3600
    /\ n > 8 => text[1] # "0"

\* C24: a line with "Progress" and "ETASeconds": s (and no legacy text)
\* publishes one snapshot whose eta is HH:MM:SS for s, and whose percentage,
\* fps and avg_fps are the numbers after "Percent":, "Rate": and "RateAvg":
\* where the line has them.
C24_EtaIsClockText ==
    [][\A h \in Holders :
         (/\ HandbrakeLineRead(h)
          /\ encProc'[h].line.json
          /\ encProc'[h].line.etaSeconds # Absent
          /\ encProc'[h].line.legacy = Absent)
         => LET l == encProc'[h].line
                after == current_encode_progress_'
                num(t) == t.int * 10 + t.frac
            IN /\ published'["enc"] = published["enc"] + 1
               /\ IsClockOf(after.eta, DigitsValue(ValueOf(l.etaSeconds)))
               /\ l.percent # Absent =>
                    after.percentage.num * 10 =
                      num(ValueOf(l.percent)) * after.percentage.den
               /\ l.rate # Absent =>
                    after.fps.num * 10 = num(ValueOf(l.rate)) * after.fps.den
               /\ l.rateAvg # Absent =>
                    after.avg_fps.num * 10 =
                      num(ValueOf(l.rateAvg)) * after.avg_fps.den]_allvars

\* the line with Percent 45.5, Rate 23.9, RateAvg 24.1 and ETASeconds 932 has
\* been read and the slot shows 00:15:32 with these three numbers
C24_Witness ==
    \E h \in Holders :
        /\ encProc[h].nlines > 0
        /\ encProc[h].line =
             HandbrakeLine(TRUE, Value(Dec(45, 5)), Value(Dec(23, 9)),
                           Value(Dec(24, 1)), Value(<<9, 3, 2>>), Absent)
        /\ current_encode_progress_.eta =
             <<"0", "0", ":", "1", "5", ":", "3", "2">>
        /\ current_encode_progress_.percentage = [num |-> 91, den |-> 2]
        /\ current_encode_progress_.fps = [num |-> 239, den |-> 10]
        /\ current_encode_progress_.avg_fps = [num |-> 241, den |-> 10]

\* an ETASeconds of 100 hours has been read: HH takes three digits
C24_WitnessLongEta ==
    \E h \in Holders :
        /\ encProc[h].nlines > 0
        /\ encProc[h].line.etaSeconds = Value(<<3, 6, 0, 0, 0, 0>>)
        /\ current_encode_progress_.eta =
             <<"1", "0", "0", ":", "0", "0", ":", "0", "0">>

\* C25: a line without a recognised progress form makes no callback call and
\* changes neither the slot, nor the wrapper's local progress, nor the
\* worker.  For MakeMKV these are the lines that are neither a PRGV nor a
\* PRGT line; for HandBrake the lines without legacy text that either lack
\* "Progress" or have it with none of the four numeric keys.
C25_UnrecognisedLineIsIgnored ==
    [][\A h \in Holders :
         /\ (/\ RipLineRead(h)
             /\ ripProc'[h].line.kind \in {"PRGV?", "other"})
            => /\ published' = published
               /\ current_rip_progress_' = current_rip_progress_
               /\ ripProc'[h].progress = ripProc[h].progress
         /\ (/\ HandbrakeLineRead(h)
             /\ encProc'[h].line.legacy = Absent
             /\ \/ ~encProc'[h].line.json
                \/ /\ encProc'[h].line.percent = Absent
                   /\ encProc'[h].line.rate = Absent
                   /\ encProc'[h].line.rateAvg = Absent
                   /\ encProc'[h].line.etaSeconds = Absent)
            => /\ published' = published
               /\ current_encode_progress_' = current_encode_progress_
               /\ encProc'[h].progress = encProc[h].progress]_allvars

\* C27: the percentage stored for a PRGV line lies within 0 and 100, also
\* when current exceeds max.
C27_PercentageWithinRange ==
    [][\A h \in Holders :
         (/\ RipLineRead(h)
          /\ ripProc'[h].line.kind = "PRGV"
          /\ published'["rip"] = published["rip"] + 1)
         => /\ current_rip_progress_'.percentage.num >= 0
            /\ current_rip_progress_'.percentage.num <=
                 100 * current_rip_progress_'.percentage.den]_allvars

\* C30: reading one line of HandBrake output makes at most one callback
\* call.
C30_OneUpdatePerLine ==
    [][\A h \in Holders :
         HandbrakeLineRead(h) =>
            published'["enc"] <= published["enc"] + 1]_allvars

\* ---- claims checked under NotifySpec ----

\* C29: once a rip worker has finished, its result is eventually consumed by
\* check_rip_completion, whether or not another event arrives.
C29_CompletionEventuallyObserved ==
    (\E h \in Holders : Ready(ripAsync[h]))
        ~> (\A h \in Holders : ripAsync[h].st = "none")

\* ---- claims checked under NotifySpec: the start of the rip stage ----

\* the lines start_ripping logs before an early return
StartRipFailures ==
    {<<"No titles selected">>,
     <<"Error creating output directory: ", "e.what()">>,
     <<"Invalid disc selection">>}

\* a call of start_ripping that returned early
StartRipFailed ==
    /\ log_messages_' # log_messages_
    /\ log_messages_' \in StartRipFailures

\* C31: a start-rip request that cannot start the stage (no title selected,
\* output directory not creatable, disc index out of range) leaves the
\* pipeline state, the rip progress slot and the stage future unchanged and
\* launches no worker; the state becomes RIPPING only in a step that launches
\* a rip worker over a non-empty list of titles.
C31_FailedStartRipChangesNothing ==
    [][/\ StartRipFailed =>
            /\ current_state_' = current_state_
            /\ current_rip_progress_' = current_rip_progress_
            /\ ripAsync' = ripAsync
            /\ ripProc' = ripProc
       /\ (current_state_ = "TITLE_SELECTION" /\ SelectedIndices = {}) =>
            /\ current_state_' = current_state_
            /\ current_rip_progress_' = current_rip_progress_
            /\ ripAsync' = ripAsync
            /\ ripProc' = ripProc
       /\ (current_state_ # "RIPPING" /\ current_state_' = "RIPPING") =>
            /\ SelectedIndices # {}
            /\ ripAsync["temp"].st = "none"
            /\ ripAsync'["temp"] = NewWorker(Cardinality(SelectedIndices))
            /\ ripAsync'["temp"].n >= 1
            /\ Len(ripProc'["temp"].titles) = Cardinality(SelectedIndices)
      ]_allvars

\* titles are selected, the output directory could not be created: nothing
\* but the log line has changed
C31_Witness ==
    /\ log_messages_ = <<"Error creating output directory: ", "e.what()">>
    /\ SelectedIndices # {}
    /\ current_state_ = "TITLE_SELECTION"
    /\ current_rip_progress_ = RipProgress(0, 0, Whole(0), <<>>)
    /\ \A h \in Holders : ripAsync[h].st = "none" /\ ripProc[h] = NoRipProc

\* 's' with nothing selected
C31_WitnessNoSelection ==
    /\ log_messages_ = <<"No titles selected">>
    /\ SelectedIndices = {}
    /\ current_state_ = "TITLE_SELECTION"
    /\ \A h \in Holders : ripAsync[h].st = "none"

\* ---- claims checked under Spec: the start of the encode stage ----

\* C32: whenever the state is ENCODING an encode worker has been launched for
\* it: a start-encode request that fails before the launch (no file, or the
\* encoded directory not creatable) leaves the state as it was.
C32_EncodingHasWorker ==
    current_state_ = "ENCODING" =>
        \E h \in Holders : encAsync[h].st # "none"

\* ---- claims checked under HubSpec ----

C15_ReadsNeverGoBack ==
    [][(rd.pc = "unlock" /\ rd'.pc = "idle") =>
         /\ Pos(rd.copy) >= rd.floor
         /\ Pos(rd.copy) >= rd.last[rd.slot]]_allvars

\* a read that took the lock after call 1 or later was complete and that
\* skips a snapshot: the previous read returned call n, this one n+2
C15_Witness ==
    /\ rd.pc = "unlock"
    /\ rd.floor >= 1
    /\ rd.last[rd.slot] >= 1
    /\ Pos(rd.copy) >= rd.last[rd.slot] + 2

====
